---- MODULE Spec2Model ----
(***************************************************************************)
(* Property Sale API (src/main.py, src/schemas.py): the three collections  *)
(* of the document store and the HTTP handlers that read and write them.   *)
(* Each request is served by one of NumProcs workers; a handler is a       *)
(* sequence of store calls, each store call one atomic step, so that the   *)
(* store calls of concurrent requests interleave.  Code that runs between  *)
(* two store calls touches only the request's own locals and is part of    *)
(* the step of the store call that follows it.  A handler that makes at    *)
(* most one store call is one step.  The step that ends a handler records  *)
(* the request and its response in `done`, which holds them until the next *)
(* step of any worker.                                                     *)
(*                                                                         *)
(* The store handle `db` is taken to be connected and truthy (main.py:56). *)
(* Strings that the code parses (identifiers, e-mail addresses) are        *)
(* sequences of one-character strings; other text is a TLA+ string.        *)
(* An Optional value is None (the empty tuple) or Some(v) (a 1-tuple).     *)
(***************************************************************************)
EXTENDS Integers, Sequences, FiniteSets, TLC

\* ------------------------------------------------------------- bounds
NumProcs == 2
MaxOffers == 2

Procs == 1..NumProcs

\* ------------------------------------------------------------- Optional
None == << >>
Some(v) == << v >>
\* Python truthiness of an Optional[str]: None and "" are both falsy
\* (Truthy for text, TruthyId for an identifier string).
Truthy(v) == v # None /\ v[1] # ""
TruthyId(v) == v # None /\ v[1] # << >>

\* ------------------------------------------------------------- ObjectId
\* A native ObjectId is a 12-byte value, here a natural number; its string
\* form is 24 lowercase hexadecimal digits.
ObjectIdLen == 24
FirstOid == 10
LowerHex == <<"0","1","2","3","4","5","6","7","8","9","a","b","c","d","e","f">>
UpperHex == <<"0","1","2","3","4","5","6","7","8","9","A","B","C","D","E","F">>

HexChars == {LowerHex[i] : i \in 1..16} \cup {UpperHex[i] : i \in 1..16}
HexValue ==
    [c \in HexChars |-> (CHOOSE i \in 1..16 : LowerHex[i] = c \/ UpperHex[i] = c) - 1]
IsHexChar(c) == c \in HexChars
HexVal(c) == HexValue[c]

\* The value of the first k hexadecimal digits of s.
RECURSIVE HexPrefixToNat(_, _)
HexPrefixToNat(s, k) ==
    IF k = 0 THEN 0 ELSE 16 * HexPrefixToNat(s, k - 1) + HexVal(s[k])

HexToNat(s) == HexPrefixToNat(s, Len(s))

\* n with its j lowest hexadecimal digits dropped.
RECURSIVE DropDigits(_, _)
DropDigits(n, j) == IF j = 0 \/ n = 0 THEN n ELSE DropDigits(n \div 16, j - 1)

\* n as k lowercase hexadecimal digits, most significant first.
NatToHex(n, k) == [i \in 1..k |-> LowerHex[(DropDigits(n, k - i) % 16) + 1]]

\* str(ObjectId): lowercase hex, most significant digit first.
ObjectIdToStr(n) == NatToHex(n, ObjectIdLen)

\* The same digits in upper case: another spelling ObjectId() accepts.
UpperStr(s) == [i \in 1..Len(s) |-> UpperHex[HexVal(s[i]) + 1]]

\* ObjectId(id_str) succeeds exactly on 24 hexadecimal digits.
ObjectIdValid(s) == Len(s) = ObjectIdLen /\ \A i \in 1..Len(s) : IsHexChar(s[i])

\* ensure_object_id: the ObjectId, or HTTP 400 "Invalid id".
ensure_object_id(s) ==
    IF ObjectIdValid(s)
    THEN [ok |-> TRUE, oid |-> HexToNat(s)]
    ELSE [ok |-> FALSE, oid |-> 0]

\* ------------------------------------------------------------- schemas
SettingsFields ==
    {"primary_color", "accent_color", "hero_heading", "hero_subheading", "announcement"}

\* AdminSettings(): the field defaults, as model_dump() returns them (the
\* dash of the announcement written in ASCII).
AdminSettingsDefaults ==
    [primary_color |-> "#f97316",
     accent_color |-> "#111827",
     hero_heading |-> "Find your next place",
     hero_subheading |-> "Modern homes, transparent offers, secure management.",
     announcement |-> "New listings dropping weekly - submit an offer in minutes!"]

\* The AdminSettings document that /seed inserts.
SeedSettings ==
    [primary_color |-> "#f97316",
     accent_color |-> "#111827",
     hero_heading |-> "Discover vibrant homes",
     hero_subheading |-> "Browse, make offers, and manage listings seamlessly.",
     announcement |-> "Welcome! This site uses demo data for preview."]

demo_imgs ==
    <<"https://images.unsplash.com/photo-1505692794403-34d4982f88aa",
      "https://images.unsplash.com/photo-1568605114967-8130f3a36994",
      "https://images.unsplash.com/photo-1523217582562-09d0def993a6">>

\* The three Property documents that /seed inserts (bathrooms in halves).
SeedProps ==
    << [title |-> "Sunny Modern Loft",
        description |-> "Open-plan loft with floor-to-ceiling windows and polished concrete floors.",
        address |-> "123 Orange Ave", city |-> "Los Angeles", state |-> "CA",
        price |-> 975000, bedrooms |-> 2, bathrooms_x2 |-> 3, area_sqft |-> 1200,
        status |-> "available", images |-> demo_imgs, tags |-> <<"loft", "downtown">>],
       [title |-> "Cozy Suburban Home",
        description |-> "Family-friendly neighborhood, renovated kitchen, large backyard.",
        address |-> "456 Grove St", city |-> "Austin", state |-> "TX",
        price |-> 620000, bedrooms |-> 3, bathrooms_x2 |-> 4, area_sqft |-> 1800,
        status |-> "available", images |-> demo_imgs, tags |-> <<"suburbs", "yard">>],
       [title |-> "Penthouse with Skyline View",
        description |-> "Top-floor penthouse featuring panoramic city views and a private terrace.",
        address |-> "789 Skyline Blvd", city |-> "Seattle", state |-> "WA",
        price |-> 1850000, bedrooms |-> 4, bathrooms_x2 |-> 6, area_sqft |-> 2500,
        status |-> "under_offer", images |-> demo_imgs, tags |-> <<"luxury", "view">>] >>

\* EmailStr: one "@", a non-empty local part, a domain of non-empty
\* labels separated by "." with at least two labels.
EmailValid(e) ==
    /\ Cardinality({i \in 1..Len(e) : e[i] = "@"}) = 1
    /\ LET at == CHOOSE i \in 1..Len(e) : e[i] = "@"
       IN /\ at > 1
          /\ at < Len(e)
          /\ \E i \in (at + 1)..Len(e) : e[i] = "."
          /\ e[at + 1] # "."
          /\ e[Len(e)] # "."
          /\ \A i \in (at + 1)..(Len(e) - 1) : ~(e[i] = "." /\ e[i + 1] = ".")

\* Mutant: the amount's ge=0 constraint is lost.
OfferValid_any_amount(o) == EmailValid(o.email)

\* Offer(...): the body validation FastAPI runs before the handler.
OfferValid(o) == o.amount >= 0 /\ EmailValid(o.email)

\* ------------------------------------------------------------- store
\* Merge of two documents, the second one's fields winning.
Merge(d, u) ==
    [k \in DOMAIN d \cup DOMAIN u |-> IF k \in DOMAIN u THEN u[k] ELSE d[k]]

\* A document matches an exact-match filter.
Matches(d, q) == \A k \in DOMAIN q : k \in DOMAIN d /\ d[k] = q[k]

\* collection.find_one(q): the first matching document, or None.
find_one(coll, q) ==
    LET hits == SelectSeq(coll, LAMBDA d : Matches(d, q))
    IN IF hits = << >> THEN None ELSE Some(hits[1])

\* The filters {} and {"_id": oid}.
EmptyFilter == [x \in {} |-> x]
\* Mutant: the lookup forgets its filter.
IdFilter_unfiltered(oid) == EmptyFilter
IdFilter(oid) == [x \in {"_id"} |-> oid]

\* collection.count_documents({}).
count_documents(coll) == Len(coll)

\* get_documents(kind, filter): the matching documents, in store order.
get_documents(coll, q) == SelectSeq(coll, LAMBDA d : Matches(d, q))

\* create_document(kind, model): the collection after inserting the
\* model's fields under a fresh identifier.
create_document(coll, model, oid) == Append(coll, Merge(model, [x \in {"_id"} |-> oid]))

\* collection.update_one({}, {"$set": u}, upsert=True): $set on the first
\* document, or the insert of a document made of u when there is none.
update_one_upsert(coll, u, oid) ==
    IF coll = << >>
    THEN << Merge(u, [x \in {"_id"} |-> oid]) >>
    ELSE [coll EXCEPT ![1] = Merge(coll[1], u)]

\* d["_id"] = str(d["_id"]).
Serialize(d) == [d EXCEPT !["_id"] = ObjectIdToStr(d["_id"])]
SerializeAll(docs) == [i \in 1..Len(docs) |-> Serialize(docs[i])]

\* ------------------------------------------------------------- inputs
\* Identifier strings a client may send: the string forms of the first
\* identifiers the store hands out, one of them also in upper case, a
\* string that is too short and one with a character that is no hex digit.
IdSpan == 1
ShortId == <<"a", "b", "c">>
NonHexId == [i \in 1..ObjectIdLen |-> IF i = ObjectIdLen THEN "z" ELSE "0"]
WellFormedIds ==
    {ObjectIdToStr(FirstOid + k) : k \in 0..IdSpan}
        \cup {UpperStr(ObjectIdToStr(FirstOid + 1))}
IdInputs == WellFormedIds \cup {ShortId, NonHexId}

GoodEmail == <<"a", "@", "b", ".", "c">>
BadEmail == <<"a", "b", ".", "c">>

\* Offer bodies: a valid body for each identifier string, and bodies with
\* an invalid e-mail address or a negative amount.
OfferBody(i, e, a) ==
    [property_id |-> i, full_name |-> "Ann", email |-> e, phone |-> None,
     amount |-> a, message |-> None, status |-> "pending"]
OfferInputs ==
    {OfferBody(i, GoodEmail, 5) : i \in WellFormedIds \cup {ShortId}}
        \cup {OfferBody(ObjectIdToStr(FirstOid + 1), BadEmail, 5),
              OfferBody(ShortId, BadEmail, 5),
              OfferBody(ObjectIdToStr(FirstOid), GoodEmail, 0 - 1)}

\* Query parameters of GET /properties (city, status) and GET /offers.
PropertyQueryInputs ==
    {<<None, None>>, <<Some(""), None>>, <<None, Some("")>>,
     <<Some("Austin"), None>>, <<None, Some("available")>>,
     <<Some("Austin"), Some("available")>>, <<Some("Seattle"), Some("available")>>,
     <<Some("Paris"), None>>}
OfferQueryInputs == {None, Some(<< >>)} \cup {Some(i) : i \in WellFormedIds}

\* SettingsUpdate bodies: no field, one field, or two fields set.
NoUpdate == [k \in SettingsFields |-> None]
PayloadInputs ==
    {NoUpdate,
     [NoUpdate EXCEPT !["announcement"] = Some("Closed on Sunday")],
     [NoUpdate EXCEPT !["primary_color"] = Some("#000000"),
                      !["hero_heading"] = Some("Homes for all")]}

\* ------------------------------------------------------------- state
VARIABLES
    property,       \* the "property" collection, in store order
    offer,          \* the "offer" collection
    adminsettings,  \* the "adminsettings" collection
    nextOid,        \* the next identifier the store hands out
    pc,             \* each worker's position in its handler
    req,            \* the request of each worker that is inside a handler
    counts,         \* seed_dummy_data's local `counts`
    ops,            \* the kinds of store calls a worker's request has made
    atStart,        \* which collections held a document when a worker's /seed arrived
    done            \* the request the latest step completed, with its response

vars == <<property, offer, adminsettings, nextOid, pc, req, counts, ops, atStart, done>>
store == <<property, offer, adminsettings, nextOid>>
locals == <<pc, req, counts, ops, atStart>>

NoReq == [op |-> "none"]
NoCounts == [property |-> 0, offer |-> 0, adminsettings |-> 0]
NotSeeding == [property |-> FALSE, adminsettings |-> FALSE]
NoDone == [req |-> NoReq, status |-> 0, body |-> None, ops |-> {}]
Populated == [property |-> property # << >>, adminsettings |-> adminsettings # << >>]

Init ==
    /\ property = << >>
    /\ offer = << >>
    /\ adminsettings = << >>
    /\ nextOid = FirstOid
    /\ pc = [p \in Procs |-> "idle"]
    /\ req = [p \in Procs |-> NoReq]
    /\ counts = [p \in Procs |-> NoCounts]
    /\ ops = [p \in Procs |-> {}]
    /\ atStart = [p \in Procs |-> NotSeeding]
    /\ done = NoDone

Ok(body) == [status |-> 200, body |-> body]
HTTPException(code, detail) == [status |-> code, body |-> [detail |-> detail]]
\* No response yet: the handler goes on.
Continue == [status |-> 0, body |-> None]

\* Workers are interchangeable: a request goes to the first idle one.
Free(p) == pc[p] = "idle" /\ \A q \in Procs : q < p => pc[q] # "idle"

\* A handler of at most one store call serves request r at an idle worker:
\* it returns response `r_out` after the store calls `o`.
Serve(p, r, r_out, o) ==
    /\ Free(p)
    /\ done' = [req |-> r, status |-> r_out.status, body |-> r_out.body,
                ops |-> o]
    /\ UNCHANGED locals

\* Request r arrives at an idle worker, whose handler makes the store
\* calls `o` and goes on to `next`.
Begin(p, r, next, o) ==
    /\ Free(p)
    /\ pc' = [pc EXCEPT ![p] = next]
    /\ req' = [req EXCEPT ![p] = r]
    /\ ops' = [ops EXCEPT ![p] = o]
    /\ done' = NoDone

\* The handler moves on to `next` after the store calls `o` of this step.
Goto(p, next, o) ==
    /\ pc' = [pc EXCEPT ![p] = next]
    /\ ops' = [ops EXCEPT ![p] = @ \cup o]
    /\ done' = NoDone
    /\ UNCHANGED req

\* The handler returns `r_out` after the store calls `o` of this step,
\* and the worker is idle again.
Finish(p, r_out, o) ==
    /\ pc' = [pc EXCEPT ![p] = "idle"]
    /\ req' = [req EXCEPT ![p] = NoReq]
    /\ ops' = [ops EXCEPT ![p] = {}]
    /\ done' = [req |-> req[p], status |-> r_out.status,
                body |-> r_out.body, ops |-> ops[p] \cup o]

\* ------------------------------------------------------------- settings
\* Mutant: the demo settings stand in for the schema defaults.
read_settings_seed_defaults(coll) ==
    LET doc == find_one(coll, EmptyFilter)
    IN IF doc = None THEN SeedSettings ELSE Serialize(doc[1])

\* read_settings: the first settings document with its _id as a string,
\* or the defaults when there is none.
read_settings(coll) ==
    LET doc == find_one(coll, EmptyFilter)
    IN IF doc = None THEN AdminSettingsDefaults ELSE Serialize(doc[1])

\* update_settings: the payload's fields that are not None.
update_data(payload) ==
    LET set == {k \in DOMAIN payload : payload[k] # None}
    IN [k \in set |-> payload[k][1]]

\* GET /admin/settings.
ReadSettings(p) ==
    /\ Serve(p, [op |-> "read_settings"], Ok(read_settings(adminsettings)), {"read"})
    /\ UNCHANGED store

\* PUT /admin/settings with no field set: read_settings() alone.
UpdateSettingsEmpty(p, payload) ==
    /\ update_data(payload) = EmptyFilter
    /\ Serve(p, [op |-> "update_settings", payload |-> payload],
             Ok(read_settings(adminsettings)), {"read"})
    /\ UNCHANGED store

\* PUT /admin/settings, the update_one call.
UpdateSettingsWrite(p, payload) ==
    /\ update_data(payload) # EmptyFilter
    /\ Begin(p, [op |-> "update_settings", payload |-> payload], "upd_read", {"write"})
    /\ adminsettings' = update_one_upsert(adminsettings, update_data(payload), nextOid)
    /\ nextOid' = IF adminsettings = << >> THEN nextOid + 1 ELSE nextOid
    /\ UNCHANGED <<property, offer, counts, atStart>>

\* PUT /admin/settings, the read_settings() call that makes the response.
UpdateSettingsRead(p) ==
    /\ pc[p] = "upd_read"
    /\ Finish(p, Ok(read_settings(adminsettings)), {"read"})
    /\ UNCHANGED <<store, counts, atStart>>

\* ------------------------------------------------------------- seed
SeedPropPc == <<"seed_prop1", "seed_prop2", "seed_prop3">>

\* Mutant: the property block runs whatever counts["property"] is.
seed_after_counts_always(c) ==
    IF c.adminsettings = 0 THEN "seed_settings" ELSE SeedPropPc[1]

\* Where seed_dummy_data goes once `counts` is complete.
seed_after_counts(c) ==
    IF c.adminsettings = 0 THEN "seed_settings"
    ELSE IF c.property = 0 THEN SeedPropPc[1]
    ELSE "return"

\* Where seed_dummy_data goes after the settings block.
seed_after_settings(c) == IF c.property = 0 THEN SeedPropPc[1] ELSE "return"

\* Where seed_dummy_data goes after the insert of the i-th property.
seed_after_property(i) == IF i = Len(SeedProps) THEN "return" ELSE SeedPropPc[i + 1]

\* seed_dummy_data moves to `next`; at the end it returns {"status": "ok"}
\* and drops its locals.
SeedGoto(p, next, c, o) ==
    IF next = "return"
    THEN /\ Finish(p, Ok([status |-> "ok"]), o)
         /\ counts' = [counts EXCEPT ![p] = NoCounts]
         /\ atStart' = [atStart EXCEPT ![p] = NotSeeding]
    ELSE /\ Goto(p, next, o)
         /\ counts' = [counts EXCEPT ![p] = c]
         /\ UNCHANGED atStart

\* POST /seed, counts["property"].
SeedCountProperty(p) ==
    /\ Begin(p, [op |-> "seed"], "seed_cnt_offer", {"read"})
    /\ counts' = [counts EXCEPT ![p].property = count_documents(property)]
    /\ atStart' = [atStart EXCEPT ![p] = Populated]
    /\ UNCHANGED store

\* POST /seed, counts["offer"].
SeedCountOffer(p) ==
    /\ pc[p] = "seed_cnt_offer"
    /\ counts' = [counts EXCEPT ![p].offer = count_documents(offer)]
    /\ Goto(p, "seed_cnt_settings", {"read"})
    /\ UNCHANGED <<store, atStart>>

\* POST /seed, counts["adminsettings"].
SeedCountSettings(p) ==
    LET c == [counts[p] EXCEPT !.adminsettings = count_documents(adminsettings)]
    IN /\ pc[p] = "seed_cnt_settings"
       /\ SeedGoto(p, seed_after_counts(c), c, {"read"})
       /\ UNCHANGED store

\* POST /seed, the insert of the settings document.
SeedInsertSettings(p) ==
    /\ pc[p] = "seed_settings"
    /\ adminsettings' = create_document(adminsettings, SeedSettings, nextOid)
    /\ nextOid' = nextOid + 1
    /\ SeedGoto(p, seed_after_settings(counts[p]), counts[p], {"write"})
    /\ UNCHANGED <<property, offer>>

\* POST /seed, the insert of the i-th property.
SeedInsertProperty(p, i) ==
    /\ pc[p] = SeedPropPc[i]
    /\ property' = create_document(property, SeedProps[i], nextOid)
    /\ nextOid' = nextOid + 1
    /\ SeedGoto(p, seed_after_property(i), counts[p], {"write"})
    /\ UNCHANGED <<offer, adminsettings>>

\* ------------------------------------------------------------- properties
\* Mutant: the status parameter is dropped from the filter.
property_filter_city_only(city, status) ==
    IF Truthy(city) THEN [k \in {"city"} |-> city[1]] ELSE EmptyFilter

\* list_properties: the filter built from the query parameters.
property_filter(city, status) ==
    LET keys == (IF Truthy(city) THEN {"city"} ELSE {})
                    \cup (IF Truthy(status) THEN {"status"} ELSE {})
    IN [k \in keys |-> IF k = "city" THEN city[1] ELSE status[1]]

\* list_properties: the response.
list_properties(city, status, coll) ==
    Ok(SerializeAll(get_documents(coll, property_filter(city, status))))

\* Mutant: a malformed identifier is reported as a missing property.
get_property_all_404(prop_id, coll) ==
    LET oid == ensure_object_id(prop_id)
        doc == find_one(coll, IdFilter(oid.oid))
    IN IF ~oid.ok \/ doc = None THEN HTTPException(404, "Property not found")
       ELSE Ok(Serialize(doc[1]))

\* get_property: the response.
get_property(prop_id, coll) ==
    LET oid == ensure_object_id(prop_id)
        doc == find_one(coll, IdFilter(oid.oid))
    IN IF ~oid.ok THEN HTTPException(400, "Invalid id")
       ELSE IF doc = None THEN HTTPException(404, "Property not found")
       ELSE Ok(Serialize(doc[1]))

\* The store calls get_property makes.
get_property_reads(prop_id) == IF ensure_object_id(prop_id).ok THEN {"read"} ELSE {}

\* GET /properties.
ListProperties(p, city, status) ==
    /\ Serve(p, [op |-> "list_properties", city |-> city, status |-> status],
             list_properties(city, status, property), {"read"})
    /\ UNCHANGED store

\* GET /properties/{prop_id}.
GetProperty(p, prop_id) ==
    /\ Serve(p, [op |-> "get_property", prop_id |-> prop_id],
             get_property(prop_id, property), get_property_reads(prop_id))
    /\ UNCHANGED store

\* ------------------------------------------------------------- offers
\* Mutant: the existence check is left out.
submit_offer_check_no_lookup(o, coll) ==
    IF ~OfferValid(o)
    THEN [resp |-> HTTPException(422, "Validation failure"), ops |-> {}]
    ELSE IF ~ensure_object_id(o.property_id).ok
    THEN [resp |-> HTTPException(400, "Invalid id"), ops |-> {}]
    ELSE [resp |-> Continue, ops |-> {}]

\* submit_offer up to the existence check, with the store calls made: the
\* error response, or Continue when the handler goes on to the insert.
submit_offer_check(o, coll) ==
    LET oid == ensure_object_id(o.property_id)
    IN IF ~OfferValid(o)
       THEN [resp |-> HTTPException(422, "Validation failure"), ops |-> {}]
       ELSE IF ~oid.ok
       THEN [resp |-> HTTPException(400, "Invalid id"), ops |-> {}]
       ELSE IF find_one(coll, IdFilter(oid.oid)) = None
       THEN [resp |-> HTTPException(404, "Property not found for this offer"),
             ops |-> {"read"}]
       ELSE [resp |-> Continue, ops |-> {"read"}]

\* Offers stored or about to be stored.
OffersInFlight == Len(offer) + Cardinality({q \in Procs : pc[q] = "offer_insert"})

\* POST /offers up to the existence check: the request is rejected, or
\* the handler goes on to the insert.
SubmitOfferCheck(p, o) ==
    LET r == submit_offer_check(o, property)
        request == [op |-> "submit_offer", offer |-> o]
    IN IF r.resp # Continue
       THEN /\ Serve(p, request, r.resp, r.ops)
            /\ UNCHANGED store
       ELSE /\ OffersInFlight < MaxOffers
            /\ Begin(p, request, "offer_insert", r.ops)
            /\ UNCHANGED <<store, counts, atStart>>

\* POST /offers, create_document("offer", offer).
SubmitOfferInsert(p) ==
    /\ pc[p] = "offer_insert"
    /\ offer' = create_document(offer, req[p].offer, nextOid)
    /\ nextOid' = nextOid + 1
    /\ Finish(p, Ok([id |-> ObjectIdToStr(nextOid), status |-> "submitted"]), {"write"})
    /\ UNCHANGED <<property, adminsettings, counts, atStart>>

\* Mutant: the filter holds the identifier's canonical spelling.
offer_filter_canonical(property_id) ==
    IF TruthyId(property_id)
    THEN [k \in {"property_id"} |->
             IF ObjectIdValid(property_id[1])
             THEN ObjectIdToStr(HexToNat(property_id[1]))
             ELSE property_id[1]]
    ELSE EmptyFilter

\* list_offers: the filter built from the query parameter.
offer_filter(property_id) ==
    IF TruthyId(property_id)
    THEN [k \in {"property_id"} |-> property_id[1]]
    ELSE EmptyFilter

\* list_offers: the response.
list_offers(property_id, coll) ==
    Ok(SerializeAll(get_documents(coll, offer_filter(property_id))))

\* GET /offers.
ListOffers(p, property_id) ==
    /\ Serve(p, [op |-> "list_offers", property_id |-> property_id],
             list_offers(property_id, offer), {"read"})
    /\ UNCHANGED store

\* ------------------------------------------------------------- system
Next ==
    \E p \in Procs :
        \/ ReadSettings(p)
        \/ \E payload \in PayloadInputs : UpdateSettingsEmpty(p, payload)
        \/ \E payload \in PayloadInputs : UpdateSettingsWrite(p, payload)
        \/ UpdateSettingsRead(p)
        \/ SeedCountProperty(p)
        \/ SeedCountOffer(p)
        \/ SeedCountSettings(p)
        \/ SeedInsertSettings(p)
        \/ \E i \in 1..Len(SeedProps) : SeedInsertProperty(p, i)
        \/ \E q \in PropertyQueryInputs : ListProperties(p, q[1], q[2])
        \/ \E prop_id \in IdInputs : GetProperty(p, prop_id)
        \/ \E o \in OfferInputs : SubmitOfferCheck(p, o)
        \/ SubmitOfferInsert(p)
        \/ \E property_id \in OfferQueryInputs : ListOffers(p, property_id)

Spec == Init /\ [][Next]_vars

\* The handlers of the settings collection, with /seed.
NextSettings ==
    \E p \in Procs :
        \/ ReadSettings(p)
        \/ \E payload \in PayloadInputs : UpdateSettingsEmpty(p, payload)
        \/ \E payload \in PayloadInputs : UpdateSettingsWrite(p, payload)
        \/ UpdateSettingsRead(p)
        \/ SeedCountProperty(p)
        \/ SeedCountOffer(p)
        \/ SeedCountSettings(p)
        \/ SeedInsertSettings(p)
        \/ \E i \in 1..Len(SeedProps) : SeedInsertProperty(p, i)

SpecSettings == Init /\ [][NextSettings]_vars

\* The handlers that read the property collection, with /seed.
NextProperties ==
    \E p \in Procs :
        \/ SeedCountProperty(p)
        \/ SeedCountOffer(p)
        \/ SeedCountSettings(p)
        \/ SeedInsertSettings(p)
        \/ \E i \in 1..Len(SeedProps) : SeedInsertProperty(p, i)
        \/ \E q \in PropertyQueryInputs : ListProperties(p, q[1], q[2])
        \/ \E prop_id \in IdInputs : GetProperty(p, prop_id)

SpecProperties == Init /\ [][NextProperties]_vars

\* The handlers of the offer collection, with /seed.
NextOffers ==
    \E p \in Procs :
        \/ SeedCountProperty(p)
        \/ SeedCountOffer(p)
        \/ SeedCountSettings(p)
        \/ SeedInsertSettings(p)
        \/ \E i \in 1..Len(SeedProps) : SeedInsertProperty(p, i)
        \/ \E o \in OfferInputs : SubmitOfferCheck(p, o)
        \/ SubmitOfferInsert(p)
        \/ \E property_id \in OfferQueryInputs : ListOffers(p, property_id)

SpecOffers == Init /\ [][NextOffers]_vars

\* ------------------------------------------------------------- claims
Range(f) == {f[i] : i \in DOMAIN f}
SeedPcs == {"seed_cnt_offer", "seed_cnt_settings", "seed_settings"} \cup Range(SeedPropPc)

\* The identifier string names a document of the collection.
Identifies(id_str, coll) ==
    /\ ObjectIdValid(id_str)
    /\ LET n == HexToNat(id_str)
       IN \E i \in 1..Len(coll) : coll[i]["_id"] = n

\* A field of a settings response, None when the response lacks it.
FieldOf(doc, f) == IF f \in DOMAIN doc THEN Some(doc[f]) ELSE None

\* C1: a Submit Offer call with a valid body and a well-formed property_id
\* that names no stored property ends with 404, and its step leaves the offer
\* collection as it was and makes no store write.
C1_Step ==
    (/\ done'.req.op = "submit_offer"
     /\ done' # done
     /\ OfferValid(done'.req.offer)
     /\ ObjectIdValid(done'.req.offer.property_id)
     /\ ~Identifies(done'.req.offer.property_id, property))
    => (/\ done'.status = 404
        /\ offer' = offer
        /\ "write" \notin done'.ops)
C1_NotFoundNoInsert == [][C1_Step]_vars
C1_Witness ==
    /\ done.req.op = "submit_offer"
    /\ done.status = 404
    /\ property # << >>

\* C2: the update_one call of an Update Settings request that sets only
\* `announcement` leaves what Read Settings returns for every other field
\* as it was before the call.
C2_Step ==
    \A p \in Procs :
        (/\ pc[p] = "idle"
         /\ pc'[p] = "upd_read"
         /\ DOMAIN update_data(req'[p].payload) = {"announcement"})
        => \A f \in SettingsFields \ {"announcement"} :
              FieldOf(read_settings(adminsettings'), f)
                  = FieldOf(read_settings(adminsettings), f)
C2_OnlyAnnouncementChanges == [][C2_Step]_vars

\* C3: Read Settings on a store with no settings document returns the
\* schema defaults of all five fields, makes no store write and leaves the
\* settings collection empty.
C3_Step ==
    (/\ done'.req.op = "read_settings"
     /\ adminsettings = << >>)
    => (/\ done'.status = 200
        /\ done'.body = AdminSettingsDefaults
        /\ DOMAIN done'.body = SettingsFields
        /\ "write" \notin done'.ops
        /\ adminsettings' = << >>)
C3_DefaultsNotPersisted == [][C3_Step]_vars
C3_Witness ==
    /\ done.req.op = "read_settings"
    /\ adminsettings = << >>
    /\ \E p \in Procs : pc[p] = "seed_settings"

\* C4: the settings collection holds at most one document.
C4_AtMostOneSettings == Len(adminsettings) <= 1

\* C7: a Seed call never changes the offer collection, changes the property
\* collection only if it was empty when the call arrived, and changes the
\* settings collection only if it was empty when the call arrived; and when
\* a Seed call returns, both collections hold a document, so that a Seed
\* call made after it changes nothing.
C7_Step ==
    /\ \A p \in Procs :
          (pc[p] \in SeedPcs /\ pc'[p] # pc[p])
          => (/\ offer' = offer
              /\ atStart[p].property => property' = property
              /\ atStart[p].adminsettings => adminsettings' = adminsettings)
    /\ done'.req.op = "seed" => (property' # << >> /\ adminsettings' # << >>)
C7_SeedNoOpWhenPopulated == [][C7_Step]_vars
C7_Witness ==
    \E p \in Procs :
        /\ pc[p] = "seed_cnt_settings"
        /\ atStart[p].property
        /\ atStart[p].adminsettings
        /\ done = NoDone

\* C5: Get Property answers 400 exactly when the identifier is malformed,
\* whatever the store holds; 404 when the identifier is well-formed and names
\* no stored property; and otherwise 200 with the stored property, its
\* identifier given as the 24-digit string that names it.
C5_GetPropertyOutcome ==
    done.req.op = "get_property" =>
        LET id == done.req.prop_id
        IN /\ ~ObjectIdValid(id) => (done.status = 400 /\ done.ops = {})
           /\ (ObjectIdValid(id) /\ ~Identifies(id, property)) => done.status = 404
           /\ Identifies(id, property) =>
                 /\ done.status = 200
                 /\ \E i \in 1..Len(property) :
                       /\ property[i]["_id"] = HexToNat(id)
                       /\ DOMAIN done.body = DOMAIN property[i]
                       /\ \A k \in DOMAIN property[i] \ {"_id"} :
                             done.body[k] = property[i][k]
                       /\ Len(done.body["_id"]) = ObjectIdLen
                       /\ HexToNat(done.body["_id"]) = property[i]["_id"]
C5_Witness ==
    /\ done.req.op = "get_property"
    /\ done.status = 200
    /\ done.body["_id"] # done.req.prop_id

\* The offers a List Offers response for this property_id string must hold.
OffersOf(id_str, coll) == {Serialize(coll[i]) : i \in {j \in 1..Len(coll) : coll[j].property_id = id_str}}

\* C6: a Submit Offer call with a valid body whose property_id names a stored
\* property returns 200 with status `submitted` and an identifier that no
\* stored offer had before; the new offer is then among the offers stored
\* under that property_id string; no step removes an offer; and a List Offers
\* response for a property_id string holds every offer stored under it.
C6_Step ==
    /\ (/\ done'.req.op = "submit_offer"
        /\ OfferValid(done'.req.offer)
        /\ Identifies(done'.req.offer.property_id, property'))
       => (/\ done'.status = 200
           /\ done'.body.status = "submitted"
           /\ "write" \in done'.ops)
    /\ (done'.req.op = "submit_offer" /\ done'.status = 200 /\ offer' # offer)
       => (/\ \A i \in 1..Len(offer) : ObjectIdToStr(offer[i]["_id"]) # done'.body.id
           /\ \E d \in OffersOf(done'.req.offer.property_id, offer') :
                 d["_id"] = done'.body.id)
    /\ \A i \in 1..Len(offer) : i <= Len(offer') /\ offer'[i] = offer[i]
    /\ (done'.req.op = "list_offers" /\ TruthyId(done'.req.property_id))
       => (/\ done'.status = 200
           /\ OffersOf(done'.req.property_id[1], offer') \subseteq Range(done'.body))
C6_OfferListedFromThenOn == [][C6_Step]_vars
C6_Witness ==
    /\ done.req.op = "list_offers"
    /\ TruthyId(done.req.property_id)
    /\ Len(done.body) = 1
    /\ Len(offer) = 2

\* A query parameter that is given, whatever its value.
Provided(v) == v # None
\* A query parameter that is given and is not the empty string.
ProvidedNonEmpty(v) == v # None /\ v[1] # ""

\* The stored properties List Properties must return when the parameters
\* for which `constrains` holds are the ones that constrain.
ExpectedProperties(city, status, constrains(_)) ==
    {Serialize(property[i]) :
        i \in {j \in 1..Len(property) :
                 /\ constrains(city) => property[j].city = city[1]
                 /\ constrains(status) => property[j].status = status[1]}}

ListPropertiesReturns(constrains(_)) ==
    done.req.op = "list_properties" =>
        /\ done.status = 200
        /\ done.ops = {"read"}
        /\ Range(done.body) = ExpectedProperties(done.req.city, done.req.status, constrains)
        /\ Len(done.body) = Cardinality(Range(done.body))

\* C8 as stated: every provided parameter constrains, the empty string too.
C8_Original == ListPropertiesReturns(Provided)

\* C8, amended: List Properties returns exactly the stored properties that
\* match every parameter that is provided and not empty; a parameter that is
\* absent or the empty string places no constraint; it never fails and makes
\* no store write.
C8_ListPropertiesExact == ListPropertiesReturns(ProvidedNonEmpty)
C8_Witness ==
    /\ done.req.op = "list_properties"
    /\ done.req.city = Some("")
    /\ Len(done.body) = Len(SeedProps)

\* C9: Submit Offer answers 422 with no store call when the body is invalid,
\* whatever the property_id; else 400 with no store call when the property_id
\* is malformed; else 404 when it names no stored property; and a worker
\* reaches the insert only with a valid body and a property_id that names a
\* stored property.
C9_SubmitOfferOrder ==
    /\ done.req.op = "submit_offer" =>
          LET o == done.req.offer
              valid == o.amount >= 0 /\ EmailValid(o.email)
          IN /\ ~valid => (done.status = 422 /\ done.ops = {})
             /\ (valid /\ ~ObjectIdValid(o.property_id)) =>
                    (done.status = 400 /\ done.ops = {})
             /\ (valid /\ ObjectIdValid(o.property_id)
                     /\ ~Identifies(o.property_id, property)) =>
                    (done.status = 404 /\ done.ops = {"read"})
             /\ "write" \in done.ops => (valid /\ Identifies(o.property_id, property))
    /\ \A p \in Procs :
          pc[p] = "offer_insert" =>
              /\ req[p].offer.amount >= 0
              /\ EmailValid(req[p].offer.email)
              /\ Identifies(req[p].offer.property_id, property)
C9_Witness ==
    /\ done.req.op = "submit_offer"
    /\ done.status = 422
    /\ ~ObjectIdValid(done.req.offer.property_id)

\* C10: every stored offer's property_id names a stored property.
C10_NoDanglingOffer ==
    \A i \in 1..Len(offer) : Identifies(offer[i].property_id, property)
C10_Witness ==
    /\ Len(offer) = MaxOffers
    /\ \E i \in 1..Len(offer) :
          offer[i].property_id # ObjectIdToStr(HexToNat(offer[i].property_id))
    /\ \E p \in Procs : pc[p] \in SeedPcs

====
